---- MODULE Spec2Model ----
(***************************************************************************)
(* Model of src-tauri/src/windows/process.rs: kill_process_tree and the    *)
(* functions it calls (get_child_processes_recursive,                      *)
(* get_process_parent_map, kill_single_process), run against an operating  *)
(* system whose process table changes on its own.                          *)
(***************************************************************************)
EXTENDS Integers, Sequences, FiniteSets, TLC

\* ---------------------------------------------------------------- bounds
MaxPid == 3        \* pids of the orchestration specification are 1..MaxPid
MaxTravPid == 4    \* pids of the traversal specification are 1..MaxTravPid
MaxCalls == 2      \* kill_process_tree(pid) calls made one after the other
MaxRegCalls == 2   \* calls of one registry operation made one after the other

Pids == 1..MaxPid
TravPids == 1..MaxTravPid

VARIABLES
    root,          \* the pid argument of kill_process_tree
    alive,         \* the pids that exist in the operating system right now
    callNo,        \* number of the kill_process_tree call in progress
    prevResult,    \* what the previous call returned ("none" for the first)
    pc,            \* position in kill_process_tree
    snap,          \* "none" | "ok" | "fail": did get_process_parent_map return
    process_map,   \* the pid -> parent pid snapshot of this call
    to_process,    \* work-list of get_child_processes_recursive (a stack)
    visited,       \* visited set of get_child_processes_recursive
    all_children,  \* result vector of get_child_processes_recursive
    iters,         \* iterations of the while loop made so far in this call
    idx,           \* position of the for loop over child_pids
    kpc,           \* position in kill_single_process: "graceful" | "forced" | "ret"
    ret,           \* value kill_single_process is returning
    res,           \* per pid: what kill_single_process returned in this call
    log,           \* commands run in this call: <<kind, pid, outcome>>
    sawRoot,       \* did the root exist when a command of this call was run on it
    result,        \* what kill_process_tree returned ("none" while running)
    qpc,           \* position in the query operation under way ("idle": none)
    wmic,          \* what the wmic run of the query produced
    tasklist,      \* what the tasklist run of the query produced
    pids_out,      \* what list_processes_by_name returned
    caller_admin,  \* does the calling process hold the administrator role
    elevated,      \* the pids whose own token is an administrator token
    etarget,       \* the pid argument of is_process_elevated
    ps,            \* what the PowerShell run of the elevation query did
    elev_out,      \* what the elevation query returned
    req,           \* the pids argument of get_process_info
    pid_to_name,   \* pid_to_name of get_process_info
    info,          \* process_info of get_process_info, Err once it failed
    rpc,           \* position in the registry or file-system operation ("idle": none)
    rstep,         \* number of registry API calls the operation has made
    rop,           \* the operation called and its arguments
    reg,           \* the registry: key path -> (value name -> data)
    reg0,          \* the registry when the call in progress started
    rres,          \* what the operation returned ("none" while running)
    rprev,         \* what the previous call of the operation returned
    rcall,         \* number of the call of the operation in progress
    files,         \* the file system: path -> content of the file there
    files0         \* the file system when the call in progress started

\* the variables of kill_process_tree and of the process table
kvars == <<root, alive, callNo, prevResult, pc, snap, process_map, to_process,
           visited, all_children, iters, idx, kpc, ret, res, log, sawRoot, result>>

\* the variables of the query operations
aux == <<qpc, wmic, tasklist, pids_out, caller_admin, elevated, etarget, ps,
         elev_out, req, pid_to_name, info>>

\* the variables of the registry and file-system operations
rvars == <<rpc, rstep, rop, reg, reg0, rres, rprev, rcall, files, files0>>

vars == <<kvars, aux, rvars>>

\* no registry or file-system operation is under way
RIdle ==
    /\ rpc = "idle"
    /\ rstep = 0
    /\ rop = [op |-> "none", name |-> <<>>, enabled |-> FALSE, path |-> <<>>]
    /\ reg = <<>>
    /\ reg0 = <<>>
    /\ rres = "none"
    /\ rprev = "none"
    /\ rcall = 0
    /\ files = <<>>
    /\ files0 = <<>>

\* no query operation is under way
AuxIdle ==
    /\ qpc = "idle"
    /\ wmic = [status |-> "none", stdout |-> <<>>]
    /\ tasklist = [status |-> "none", stdout |-> <<>>]
    /\ pids_out = [st |-> "none", v |-> <<>>]
    /\ caller_admin = FALSE
    /\ elevated = {}
    /\ etarget = 0
    /\ ps = "none"
    /\ elev_out = "none"
    /\ req = <<>>
    /\ pid_to_name = <<>>
    /\ info = [st |-> "none", v |-> <<>>]

\* ------------------------------------------------------------ helpers
Range(s) == {s[i] : i \in 1..Len(s)}

NoDup(s) == \A i, j \in 1..Len(s) : i # j => s[i] # s[j]

\* every order in which a HashMap iteration can yield the elements of S
Orders(S) ==
    {s \in [1..Cardinality(S) -> S] : \A i, j \in 1..Cardinality(S) : i # j => s[i] # s[j]}

\* every HashMap<u32, u32> over the pids P: each pid has at most one parent
AllMaps(P) == UNION {[S -> P] : S \in SUBSET P}

EmptyMap == [p \in {} |-> 0]

NoRes(P) == [p \in P |-> "none"]

\* ------------------------------------------------------------ results
OkTrue == "OkTrue"
OkFalse == "OkFalse"
Err == "Err"

\* ------------------------------------------------- the operating system
\* A process exits on its own (or after a graceful request it honoured late).
ProcessExits ==
    /\ \E p \in alive : alive' = alive \ {p}
    /\ UNCHANGED <<root, callNo, prevResult, pc, snap, process_map, to_process,
                   visited, all_children, iters, idx, kpc, ret, res, log, sawRoot, result>>
    /\ UNCHANGED aux
    /\ UNCHANGED rvars

\* A process starts; the pid may be one that was used before (pids are recycled).
ProcessStarts ==
    /\ \E p \in Pids \ alive : alive' = alive \cup {p}
    /\ UNCHANGED <<root, callNo, prevResult, pc, snap, process_map, to_process,
                   visited, all_children, iters, idx, kpc, ret, res, log, sawRoot, result>>
    /\ UNCHANGED aux
    /\ UNCHANGED rvars

\* What `taskkill /PID pid` can report, and the process table it leaves.
\*   "spawnerr": the command could not be executed (.output() is Err)
\*   "success" : exit status 0; the request was delivered, the process exits
\*               now or keeps running for a while
\*   "fail"    : non-zero exit status (no such process, or the process refuses)
GracefulOutcomes(pid) ==
    {<<"spawnerr", alive>>, <<"fail", alive>>}
        \cup (IF pid \in alive
              THEN {<<"success", alive \ {pid}>>, <<"success", alive>>}
              ELSE {})

\* variant: the forced command is run with /T and takes other live processes
\* down with the target
ForcedOutcomes_WithTree(pid) ==
    {<<"spawnerr", alive>>, <<"other", alive>>}
        \cup (IF pid \in alive
              THEN {<<"success", alive \ ({pid} \cup S)>> : S \in SUBSET alive}
              ELSE {<<"notfound", alive>>})

\* What `taskkill /F /PID pid` can report, and the process table it leaves.
\*   "notfound": non-zero exit status, stderr has "not found" / "No tasks";
\*               taskkill prints it for a pid that does not exist
\*   "other"   : non-zero exit status with any other stderr (access denied,
\*               or a message in which the two English phrases do not occur)
ForcedOutcomes(pid) ==
    {<<"spawnerr", alive>>, <<"other", alive>>}
        \cup (IF pid \in alive
              THEN {<<"success", alive \ {pid}>>}
              ELSE {<<"notfound", alive>>})

\* ------------------------------------------- get_process_parent_map
\* kill_process_tree enters get_child_processes_recursive, which creates its
\* three collections and then asks get_process_parent_map for the snapshot.
\* The wmic listing is whatever the system reports at that moment: any
\* pid -> parent map over positive pids, or a failure (`?` returns the error
\* through get_child_processes_recursive and kill_process_tree).
\* variant: without a snapshot the root is terminated all the same
get_process_parent_map_FailKillsRoot ==
    /\ pc = "start"
    /\ all_children' = <<>>
    /\ visited' = {}
    /\ iters' = 0
    /\ \/ /\ snap' = "fail"
          /\ process_map' = EmptyMap
          /\ to_process' = <<>>
          /\ result' = "none"
          /\ pc' = "root"
       \/ /\ snap' = "ok"
          /\ process_map' \in AllMaps(Pids)
          /\ to_process' = <<root>>
          /\ result' = "none"
          /\ pc' = "traverse"
    /\ UNCHANGED <<root, alive, callNo, prevResult, idx, kpc, ret, res, log, sawRoot>>
    /\ UNCHANGED aux
    /\ UNCHANGED rvars

\* variant: the traversal starts from the root only when the snapshot lists it
get_process_parent_map_RootFromMap ==
    /\ pc = "start"
    /\ all_children' = <<>>
    /\ visited' = {}
    /\ iters' = 0
    /\ \/ /\ snap' = "fail"
          /\ process_map' = EmptyMap
          /\ to_process' = <<>>
          /\ result' = Err
          /\ pc' = "done"
       \/ /\ snap' = "ok"
          /\ process_map' \in AllMaps(Pids)
          /\ to_process' = IF root \in DOMAIN process_map' THEN <<root>> ELSE <<>>
          /\ result' = "none"
          /\ pc' = "traverse"
    /\ UNCHANGED <<root, alive, callNo, prevResult, idx, kpc, ret, res, log, sawRoot>>
    /\ UNCHANGED aux
    /\ UNCHANGED rvars

get_process_parent_map ==
    /\ pc = "start"
    /\ all_children' = <<>>
    /\ visited' = {}
    /\ iters' = 0
    /\ \/ /\ snap' = "fail"
          /\ process_map' = EmptyMap
          /\ to_process' = <<>>
          /\ result' = Err
          /\ pc' = "done"
       \/ /\ snap' = "ok"
          /\ process_map' \in AllMaps(Pids)
          /\ to_process' = <<root>>
          /\ result' = "none"
          /\ pc' = "traverse"
    /\ UNCHANGED <<root, alive, callNo, prevResult, idx, kpc, ret, res, log, sawRoot>>
    /\ UNCHANGED aux
    /\ UNCHANGED rvars

\* ------------------------------------- get_child_processes_recursive
\* variant: only the direct children of the root are ever pushed
ChildrenToPush_RootOnly(current_pid, seen) ==
    {pid \in DOMAIN process_map : process_map[pid] = root /\ pid \notin seen}

\* the pids the inner `for` pushes after current_pid was marked visited
ChildrenToPush(current_pid, seen) ==
    {pid \in DOMAIN process_map : process_map[pid] = current_pid /\ pid \notin seen}

\* variant: the snapshot is taken again at every node of the traversal
TraverseStep_Requery ==
    /\ pc = "traverse"
    /\ to_process # <<>>
    /\ process_map' \in AllMaps(Pids)
    /\ LET current_pid == to_process[Len(to_process)]
           rest == SubSeq(to_process, 1, Len(to_process) - 1)
           kids == {pid \in DOMAIN process_map' :
                       process_map'[pid] = current_pid /\ pid \notin visited \cup {current_pid}}
       IN  IF current_pid \in visited
           THEN /\ to_process' = rest
                /\ UNCHANGED <<visited, all_children>>
           ELSE /\ visited' = visited \cup {current_pid}
                /\ all_children' = Append(all_children, current_pid)
                /\ \E order \in Orders(kids) : to_process' = rest \o order
    /\ iters' = iters + 1
    /\ UNCHANGED <<root, alive, callNo, prevResult, pc, snap,
                   idx, kpc, ret, res, log, sawRoot, result>>
    /\ UNCHANGED aux
    /\ UNCHANGED rvars

\* variant: the inner `for` stops at the first child it pushes
TraverseStep_PushFirstOnly ==
    /\ pc = "traverse"
    /\ to_process # <<>>
    /\ LET current_pid == to_process[Len(to_process)]
           rest == SubSeq(to_process, 1, Len(to_process) - 1)
       IN  IF current_pid \in visited
           THEN /\ to_process' = rest
                /\ UNCHANGED <<visited, all_children>>
           ELSE /\ visited' = visited \cup {current_pid}
                /\ all_children' = Append(all_children, current_pid)
                /\ \E order \in Orders(ChildrenToPush(current_pid, visited \cup {current_pid})) :
                       to_process' = IF order = <<>> THEN rest ELSE Append(rest, order[1])
    /\ iters' = iters + 1
    /\ UNCHANGED <<root, alive, callNo, prevResult, pc, snap, process_map,
                   idx, kpc, ret, res, log, sawRoot, result>>
    /\ UNCHANGED aux
    /\ UNCHANGED rvars

\* variant: no visited set, neither at the pop nor at the push
TraverseStep_NoVisited ==
    /\ pc = "traverse"
    /\ to_process # <<>>
    /\ LET current_pid == to_process[Len(to_process)]
           rest == SubSeq(to_process, 1, Len(to_process) - 1)
       IN  /\ visited' = visited \cup {current_pid}
           /\ all_children' = Append(all_children, current_pid)
           /\ \E order \in Orders(ChildrenToPush(current_pid, {})) :
                  to_process' = rest \o order
    /\ iters' = iters + 1
    /\ UNCHANGED <<root, alive, callNo, prevResult, pc, snap, process_map,
                   idx, kpc, ret, res, log, sawRoot, result>>
    /\ UNCHANGED aux
    /\ UNCHANGED rvars

\* One iteration of `while let Some(current_pid) = to_process.pop()`.
TraverseStep ==
    /\ pc = "traverse"
    /\ to_process # <<>>
    /\ LET current_pid == to_process[Len(to_process)]
           rest == SubSeq(to_process, 1, Len(to_process) - 1)
       IN  IF current_pid \in visited
           THEN /\ to_process' = rest
                /\ UNCHANGED <<visited, all_children>>
           ELSE /\ visited' = visited \cup {current_pid}
                /\ all_children' = Append(all_children, current_pid)
                /\ \E order \in Orders(ChildrenToPush(current_pid, visited \cup {current_pid})) :
                       to_process' = rest \o order
    /\ iters' = iters + 1
    /\ UNCHANGED <<root, alive, callNo, prevResult, pc, snap, process_map,
                   idx, kpc, ret, res, log, sawRoot, result>>
    /\ UNCHANGED aux
    /\ UNCHANGED rvars

\* The work-list is empty: Ok(all_children) goes back to kill_process_tree,
\* which starts the loop over child_pids.
TraverseDone ==
    /\ pc = "traverse"
    /\ to_process = <<>>
    /\ pc' = "children"
    /\ idx' = 1
    /\ kpc' = "graceful"
    /\ UNCHANGED <<root, alive, callNo, prevResult, snap, process_map, to_process,
                   visited, all_children, iters, ret, res, log, sawRoot, result>>
    /\ UNCHANGED aux
    /\ UNCHANGED rvars

\* ------------------------------------------------ kill_single_process
\* the pid kill_single_process is working on
Target == IF pc = "children" THEN all_children[idx] ELSE root

\* variant: the loop over child_pids does not pass over the root
InKill_IncludingRoot ==
    \/ pc = "children" /\ idx <= Len(all_children)
    \/ pc = "root"

\* the call is in progress for a descendant or for the root
InKill ==
    \/ pc = "children" /\ idx <= Len(all_children) /\ all_children[idx] # root
    \/ pc = "root"

\* variant: a failed graceful command is an error, no forced command follows
GracefulReturn_NoEscalation(outcome) ==
    CASE outcome = "spawnerr" -> Err
      [] outcome = "success" -> OkTrue
      [] OTHER -> Err

\* return value after the graceful command, "none" when the function goes on
GracefulReturn(outcome) ==
    CASE outcome = "spawnerr" -> Err
      [] outcome = "success" -> OkTrue
      [] OTHER -> "none"

\* variant: every forced command that ran counts as a termination
ForcedReturn_OtherIsOk(outcome) ==
    CASE outcome = "spawnerr" -> Err
      [] outcome = "success" -> OkTrue
      [] outcome = "notfound" -> OkFalse
      [] OTHER -> OkTrue

\* variant: every failed forced command counts as "already gone"
ForcedReturn_AnyFailureGone(outcome) ==
    CASE outcome = "spawnerr" -> Err
      [] outcome = "success" -> OkTrue
      [] OTHER -> OkFalse

\* variant: stderr is not inspected, every failed forced command is an error
ForcedReturn_NoSignature(outcome) ==
    CASE outcome = "spawnerr" -> Err
      [] outcome = "success" -> OkTrue
      [] OTHER -> Err

\* return value after the forced command
ForcedReturn(outcome) ==
    CASE outcome = "spawnerr" -> Err
      [] outcome = "success" -> OkTrue
      [] outcome = "notfound" -> OkFalse
      [] OTHER -> Err

KillGraceful ==
    /\ InKill
    /\ kpc = "graceful"
    /\ \E o \in GracefulOutcomes(Target) :
          /\ log' = Append(log, <<"graceful", Target, o[1]>>)
          /\ alive' = o[2]
          /\ sawRoot' = (sawRoot \/ (pc = "root" /\ root \in alive))
          /\ ret' = GracefulReturn(o[1])
          /\ kpc' = IF GracefulReturn(o[1]) = "none" THEN "forced" ELSE "ret"
    /\ UNCHANGED <<root, callNo, prevResult, pc, snap, process_map, to_process,
                   visited, all_children, iters, idx, res, result>>
    /\ UNCHANGED aux
    /\ UNCHANGED rvars

KillForced ==
    /\ InKill
    /\ kpc = "forced"
    /\ \E o \in ForcedOutcomes(Target) :
          /\ log' = Append(log, <<"forced", Target, o[1]>>)
          /\ alive' = o[2]
          /\ sawRoot' = (sawRoot \/ (pc = "root" /\ root \in alive))
          /\ ret' = ForcedReturn(o[1])
          /\ kpc' = "ret"
    /\ UNCHANGED <<root, callNo, prevResult, pc, snap, process_map, to_process,
                   visited, all_children, iters, idx, res, result>>
    /\ UNCHANGED aux
    /\ UNCHANGED rvars

\* --------------------------------------------------- kill_process_tree
\* `if child_pid != pid` is false: the root is passed over in the loop
ChildSkipRoot ==
    /\ pc = "children"
    /\ kpc = "graceful"
    /\ idx <= Len(all_children)
    /\ all_children[idx] = root
    /\ idx' = idx + 1
    /\ UNCHANGED <<root, alive, callNo, prevResult, pc, snap, process_map, to_process,
                   visited, all_children, iters, kpc, ret, res, log, sawRoot, result>>
    /\ UNCHANGED aux
    /\ UNCHANGED rvars

\* variant: a descendant whose termination failed is tried a second time
ChildReturn_RetryOnce ==
    /\ pc = "children"
    /\ kpc = "ret"
    /\ kpc' = "graceful"
    /\ ret' = "none"
    /\ IF ret = Err /\ Cardinality({i \in 1..Len(log) :
                                      log[i][1] = "graceful" /\ log[i][2] = all_children[idx]}) < 2
       THEN UNCHANGED <<res, idx>>
       ELSE /\ res' = [res EXCEPT ![all_children[idx]] = ret]
            /\ idx' = idx + 1
    /\ UNCHANGED <<root, alive, callNo, prevResult, pc, snap, process_map, to_process,
                   visited, all_children, iters, log, sawRoot, result>>
    /\ UNCHANGED aux
    /\ UNCHANGED rvars

\* variant: `kill_single_process(child_pid).await?` an error ends the call
ChildReturn_Propagate ==
    /\ pc = "children"
    /\ kpc = "ret"
    /\ res' = [res EXCEPT ![all_children[idx]] = ret]
    /\ idx' = idx + 1
    /\ kpc' = "graceful"
    /\ ret' = "none"
    /\ IF ret = Err
       THEN result' = Err /\ pc' = "done"
       ELSE UNCHANGED <<result, pc>>
    /\ UNCHANGED <<root, alive, callNo, prevResult, snap, process_map, to_process,
                   visited, all_children, iters, log, sawRoot>>
    /\ UNCHANGED aux
    /\ UNCHANGED rvars

\* `let _ = kill_single_process(child_pid).await;` the value is dropped
\* (res keeps it for the record) and the loop goes on
ChildReturn ==
    /\ pc = "children"
    /\ kpc = "ret"
    /\ res' = [res EXCEPT ![all_children[idx]] = ret]
    /\ idx' = idx + 1
    /\ kpc' = "graceful"
    /\ ret' = "none"
    /\ UNCHANGED <<root, alive, callNo, prevResult, pc, snap, process_map, to_process,
                   visited, all_children, iters, log, sawRoot, result>>
    /\ UNCHANGED aux
    /\ UNCHANGED rvars

\* variant: the root's turn comes only when no descendant exists any more
ChildrenDone_WaitAllGone ==
    /\ pc = "children"
    /\ kpc = "graceful"
    /\ idx > Len(all_children)
    /\ Range(all_children) \cap alive \subseteq {root}
    /\ pc' = "root"
    /\ UNCHANGED <<root, alive, callNo, prevResult, snap, process_map, to_process,
                   visited, all_children, iters, idx, kpc, ret, res, log, sawRoot, result>>
    /\ UNCHANGED aux
    /\ UNCHANGED rvars

\* the loop is over: kill_single_process(pid) is called for the root
ChildrenDone ==
    /\ pc = "children"
    /\ kpc = "graceful"
    /\ idx > Len(all_children)
    /\ pc' = "root"
    /\ UNCHANGED <<root, alive, callNo, prevResult, snap, process_map, to_process,
                   visited, all_children, iters, idx, kpc, ret, res, log, sawRoot, result>>
    /\ UNCHANGED aux
    /\ UNCHANGED rvars

\* variant: the result is an error as soon as any descendant's was
RootReturn_Aggregate ==
    /\ pc = "root"
    /\ kpc = "ret"
    /\ res' = [res EXCEPT ![root] = ret]
    /\ result' = IF \E p \in DOMAIN res : res[p] = Err THEN Err ELSE ret
    /\ pc' = "done"
    /\ kpc' = "graceful"
    /\ ret' = "none"
    /\ UNCHANGED <<root, alive, callNo, prevResult, snap, process_map, to_process,
                   visited, all_children, iters, idx, log, sawRoot>>
    /\ UNCHANGED aux
    /\ UNCHANGED rvars

\* kill_single_process(pid).await.context(..): the root's value is the result
RootReturn ==
    /\ pc = "root"
    /\ kpc = "ret"
    /\ res' = [res EXCEPT ![root] = ret]
    /\ result' = ret
    /\ pc' = "done"
    /\ kpc' = "graceful"
    /\ ret' = "none"
    /\ UNCHANGED <<root, alive, callNo, prevResult, snap, process_map, to_process,
                   visited, all_children, iters, idx, log, sawRoot>>
    /\ UNCHANGED aux
    /\ UNCHANGED rvars

\* The caller calls kill_process_tree(pid) again with the same pid; nothing
\* of the finished call is kept by the function.
CallAgain ==
    /\ pc = "done"
    /\ callNo < MaxCalls
    /\ callNo' = callNo + 1
    /\ prevResult' = result
    /\ pc' = "start"
    /\ snap' = "none"
    /\ process_map' = EmptyMap
    /\ to_process' = <<>>
    /\ visited' = {}
    /\ all_children' = <<>>
    /\ iters' = 0
    /\ idx' = 1
    /\ kpc' = "graceful"
    /\ ret' = "none"
    /\ res' = NoRes(Pids)
    /\ log' = <<>>
    /\ sawRoot' = FALSE
    /\ result' = "none"
    /\ UNCHANGED <<root, alive>>
    /\ UNCHANGED aux
    /\ UNCHANGED rvars

\* --------------------------------------------------- specifications
Init ==
    /\ root \in Pids
    /\ alive \in SUBSET Pids
    /\ callNo = 1
    /\ prevResult = "none"
    /\ pc = "start"
    /\ snap = "none"
    /\ process_map = EmptyMap
    /\ to_process = <<>>
    /\ visited = {}
    /\ all_children = <<>>
    /\ iters = 0
    /\ idx = 1
    /\ kpc = "graceful"
    /\ ret = "none"
    /\ res = NoRes(Pids)
    /\ log = <<>>
    /\ sawRoot = FALSE
    /\ result = "none"
    /\ AuxIdle
    /\ RIdle

Next ==
    \/ get_process_parent_map
    \/ TraverseStep
    \/ TraverseDone
    \/ ChildSkipRoot
    \/ KillGraceful
    \/ KillForced
    \/ ChildReturn
    \/ ChildrenDone
    \/ RootReturn
    \/ CallAgain
    \/ ProcessExits
    \/ ProcessStarts

Spec == Init /\ [][Next]_vars

\* One call from start to return, every step of which is taken in the end:
\* the future of kill_process_tree is polled until it is ready, and every
\* wmic and taskkill command it awaits returns.
CallStep ==
    \/ get_process_parent_map
    \/ TraverseStep
    \/ TraverseDone
    \/ ChildSkipRoot
    \/ KillGraceful
    \/ KillForced
    \/ ChildReturn
    \/ ChildrenDone
    \/ RootReturn

NextLive ==
    \/ CallStep
    \/ ProcessExits
    \/ ProcessStarts

SpecLive == Init /\ [][NextLive]_vars /\ WF_vars(CallStep)

\* The traversal alone, over every snapshot of up to MaxTravPid pids.
InitTrav ==
    /\ root \in TravPids
    /\ alive = {}
    /\ callNo = 1
    /\ prevResult = "none"
    /\ pc = "traverse"
    /\ snap = "ok"
    /\ process_map \in AllMaps(TravPids)
    /\ to_process = <<root>>
    /\ visited = {}
    /\ all_children = <<>>
    /\ iters = 0
    /\ idx = 1
    /\ kpc = "graceful"
    /\ ret = "none"
    /\ res = NoRes(TravPids)
    /\ log = <<>>
    /\ sawRoot = FALSE
    /\ result = "none"
    /\ AuxIdle
    /\ RIdle

NextTrav ==
    \/ TraverseStep
    \/ TraverseDone

SpecTrav == InitTrav /\ [][NextTrav]_vars

\* ------------------------------------------------------------ text
\* A string is a sequence of characters; "sp" is a space, "cr" a carriage
\* return, "dq" a double quote, "a" and "b" letters. A listing is the
\* sequence of its lines (what str::lines() yields).
MaxLines == 4      \* lines of a wmic or tasklist listing
MaxInfoLines == 2  \* lines of each listing read by get_process_info
MaxReq == 2        \* pids passed to get_process_info

Digits == <<"0", "1", "2", "3", "4", "5", "6", "7", "8", "9">>

IsDigit(c) == \E i \in 1..10 : Digits[i] = c

DigitVal(c) == (CHOOSE i \in 1..10 : Digits[i] = c) - 1

IsWhitespace(c) == c \in {"sp", "cr"}

\* str::trim
RECURSIVE Trim(_)
Trim(s) ==
    IF s = <<>> THEN s
    ELSE IF IsWhitespace(s[1]) THEN Trim(Tail(s))
    ELSE IF IsWhitespace(s[Len(s)]) THEN Trim(SubSeq(s, 1, Len(s) - 1))
    ELSE s

\* str::trim_matches('"')
RECURSIVE TrimQuotes(_)
TrimQuotes(s) ==
    IF s = <<>> THEN s
    ELSE IF s[1] = "dq" THEN TrimQuotes(Tail(s))
    ELSE IF s[Len(s)] = "dq" THEN TrimQuotes(SubSeq(s, 1, Len(s) - 1))
    ELSE s

\* str::split(','): always at least one part
RECURSIVE Split(_)
Split(s) ==
    IF \A i \in 1..Len(s) : s[i] # ","
    THEN <<s>>
    ELSE LET k == CHOOSE i \in 1..Len(s) : s[i] = "," /\ \A j \in 1..(i - 1) : s[j] # ","
         IN  <<SubSeq(s, 1, k - 1)>> \o Split(SubSeq(s, k + 1, Len(s)))

RECURSIVE DecVal(_)
DecVal(s) == IF s = <<>> THEN 0 ELSE 10 * DecVal(SubSeq(s, 1, Len(s) - 1)) + DigitVal(s[Len(s)])

\* str::parse::<u32>(): an optional "+", then one or more digits; anything
\* else is an error. (A value above u32::MAX is an error too; the fields of
\* the listings below have at most two digits.)
ParseU32(s) ==
    LET body == IF s # <<>> /\ s[1] = "+" THEN Tail(s) ELSE s
    IN  IF body # <<>> /\ (\A i \in 1..Len(body) : IsDigit(body[i]))
        THEN [ok |-> TRUE, n |-> DecVal(body)]
        ELSE [ok |-> FALSE, n |-> 0]

\* u32 Display, as in pid.to_string() and format!("PID-{}", pid)
RECURSIVE ToDigits(_)
ToDigits(n) == IF n < 10 THEN <<Digits[n + 1]>> ELSE ToDigits(n \div 10) \o <<Digits[(n % 10) + 1]>>

\* every listing of at most n lines taken from Lines
Listings(Lines, n) == UNION {[1..k -> Lines] : k \in 0..n}

\* ---------------------------------------- the wmic listing and its parse
BlankLine == <<>>

\* "Node,ParentProcessId,ProcessId"
WmicHeader == <<"a", ",", "a", ",", "a">>

\* "NODE,<parent pid>,<pid>"
WmicRecord(parent_pid, pid) == <<"a", ",">> \o ToDigits(parent_pid) \o <<",">> \o ToDigits(pid)

\* the lines wmic listings are made of here: the header lines, records (one
\* of a process whose parent pid is 0, one padded as wmic pads its lines),
\* and lines that are short or carry text where a number belongs
WmicLines ==
    { BlankLine, WmicHeader,
      WmicRecord(1, 2), WmicRecord(2, 1), WmicRecord(2, 3), WmicRecord(0, 3),
      <<"a", ",", "sp", "1", ",", "3", "sp", "cr">>,
      <<"a", ",", "1">>,
      <<"a", ",", "a", ",", "2">> }

\* what running wmic can give: it cannot be executed, it exits non-zero, or
\* it exits zero with some stdout
WmicRuns(n) ==
    {[status |-> "spawnerr", stdout |-> <<>>], [status |-> "fail", stdout |-> <<>>]}
        \cup {[status |-> "ok", stdout |-> l] : l \in Listings(WmicLines, n)}

NoRun == [status |-> "none", stdout |-> <<>>]

\* process_map.insert(pid, parent_pid)
MapInsert(map, pid, parent_pid) ==
    [p \in DOMAIN map \cup {pid} |-> IF p = pid THEN parent_pid ELSE map[p]]

\* the body of `for line in output_str.lines().skip(2)` for one line
ParseWmicLine(map, line) ==
    LET parts == Split(line)
    IN  IF Len(parts) >= 3
        THEN LET parent_pid == ParseU32(Trim(parts[2]))
                 pid == ParseU32(Trim(parts[3]))
             IN  IF parent_pid.ok /\ pid.ok /\ parent_pid.n > 0 /\ pid.n > 0
                 THEN MapInsert(map, pid.n, parent_pid.n)
                 ELSE map
        ELSE map

\* variant: the first line that is not a record ends the parse
RECURSIVE ParseWmicFrom_StopAtMalformed(_, _, _)
ParseWmicFrom_StopAtMalformed(listing, i, map) ==
    IF i > Len(listing) THEN map
    ELSE IF Len(Split(listing[i])) < 3 THEN map
    ELSE ParseWmicFrom_StopAtMalformed(listing, i + 1, ParseWmicLine(map, listing[i]))

\* the loop over the lines i, i+1, ... of the listing
RECURSIVE ParseWmicFrom(_, _, _)
ParseWmicFrom(listing, i, map) ==
    IF i > Len(listing) THEN map
    ELSE ParseWmicFrom(listing, i + 1, ParseWmicLine(map, listing[i]))

\* get_process_parent_map as a function of the wmic run
ParentMapResult(run) ==
    IF run.status # "ok"
    THEN [st |-> Err, v |-> EmptyMap]
    ELSE [st |-> "Ok", v |-> ParseWmicFrom(run.stdout, 3, EmptyMap)]

\* the kill_process_tree variables, other than the process table, while a
\* query operation is modelled
KQuiet ==
    /\ root = 1
    /\ callNo = 1
    /\ prevResult = "none"
    /\ pc = "idle"
    /\ snap = "none"
    /\ process_map = EmptyMap
    /\ to_process = <<>>
    /\ visited = {}
    /\ all_children = <<>>
    /\ iters = 0
    /\ idx = 1
    /\ kpc = "graceful"
    /\ ret = "none"
    /\ res = NoRes(Pids)
    /\ log = <<>>
    /\ sawRoot = FALSE
    /\ result = "none"

\* the same, and no process of interest in the process table
KIdle == alive = {} /\ KQuiet

\* get_process_parent_map called on its own: the run of wmic, then the parse
QueryParentMap ==
    /\ qpc = "parent_map"
    /\ snap' = IF ParentMapResult(wmic).st = "Ok" THEN "ok" ELSE "fail"
    /\ process_map' = ParentMapResult(wmic).v
    /\ qpc' = "done"
    /\ UNCHANGED <<root, alive, callNo, prevResult, pc, to_process, visited,
                   all_children, iters, idx, kpc, ret, res, log, sawRoot, result>>
    /\ UNCHANGED <<wmic, tasklist, pids_out, caller_admin, elevated, etarget, ps,
                   elev_out, req, pid_to_name, info>>
    /\ UNCHANGED rvars

InitSnap ==
    /\ KIdle
    /\ qpc = "parent_map"
    /\ wmic \in WmicRuns(MaxLines)
    /\ tasklist = NoRun
    /\ pids_out = [st |-> "none", v |-> <<>>]
    /\ caller_admin = FALSE
    /\ elevated = {}
    /\ etarget = 0
    /\ ps = "none"
    /\ elev_out = "none"
    /\ req = <<>>
    /\ pid_to_name = EmptyMap
    /\ info = [st |-> "none", v |-> <<>>]
    /\ RIdle

NextSnap == QueryParentMap

SpecSnap == InitSnap /\ [][NextSnap]_vars

\* ------------------------------------ the tasklist listing and its parse
\* a line of blanks
SpaceLine == <<"sp">>

\* "INFO: No tasks are running which match the specified criteria."
InfoLine == <<"a", "sp", "a">>

\* "<image name>","<pid>","Console" (tasklist /FO CSV /NH)
TaskRecord(name, pid) ==
    <<"dq">> \o name \o <<"dq", ",", "dq">> \o ToDigits(pid) \o <<"dq", ",", "dq", "a", "dq">>

\* the lines tasklist listings are made of here: blank lines, the
\* informational line, records (one of an image whose name holds a comma, one
\* padded inside the quotes), a line of one field and a line with text where
\* the pid belongs
TasklistLines ==
    { BlankLine, SpaceLine, InfoLine,
      TaskRecord(<<"a">>, 1), TaskRecord(<<"b">>, 2), TaskRecord(<<"a">>, 12),
      TaskRecord(<<"a", ",", "b">>, 3),
      <<"dq", "a", "dq", ",", "dq", "sp", "3", "sp", "dq">>,
      <<"dq", "a", "dq">>,
      <<"dq", "a", "dq", ",", "dq", "a", "dq">> }

\* what running tasklist can give: it cannot be executed, it exits non-zero,
\* or it exits zero with some stdout
TasklistRuns(Lines, n) ==
    {[status |-> "spawnerr", stdout |-> <<>>], [status |-> "fail", stdout |-> <<>>]}
        \cup {[status |-> "ok", stdout |-> l] : l \in Listings(Lines, n)}

\* the pid column of one line: parts[1].trim_matches('"').trim().parse()
PidField(line) ==
    IF Trim(line) = <<>> THEN [ok |-> FALSE, n |-> 0]
    ELSE IF Len(Split(line)) >= 2 THEN ParseU32(Trim(TrimQuotes(Split(line)[2])))
    ELSE [ok |-> FALSE, n |-> 0]

\* the loop over the lines i, i+1, ... of the listing: pids.push(pid)
RECURSIVE PidsFrom(_, _)
PidsFrom(listing, i) ==
    IF i > Len(listing) THEN <<>>
    ELSE (IF PidField(listing[i]).ok THEN <<PidField(listing[i]).n>> ELSE <<>>)
             \o PidsFrom(listing, i + 1)

\* variant: a search that finds nothing is an error
ListResult_EmptyIsErr(run) ==
    IF run.status # "ok" \/ PidsFrom(run.stdout, 1) = <<>>
    THEN [st |-> Err, v |-> <<>>]
    ELSE [st |-> "Ok", v |-> PidsFrom(run.stdout, 1)]

\* list_processes_by_name as a function of the tasklist run
ListResult(run) ==
    IF run.status # "ok"
    THEN [st |-> Err, v |-> <<>>]
    ELSE [st |-> "Ok", v |-> PidsFrom(run.stdout, 1)]

\* list_processes_by_name: the run of tasklist, then the parse
ListProcessesByName ==
    /\ qpc = "list"
    /\ pids_out' = ListResult(tasklist)
    /\ qpc' = "done"
    /\ UNCHANGED <<kvars, wmic, tasklist, caller_admin, elevated, etarget, ps,
                   elev_out, req, pid_to_name, info>>
    /\ UNCHANGED rvars

InitList ==
    /\ KIdle
    /\ qpc = "list"
    /\ wmic = NoRun
    /\ tasklist \in TasklistRuns(TasklistLines, MaxLines)
    /\ pids_out = [st |-> "none", v |-> <<>>]
    /\ caller_admin = FALSE
    /\ elevated = {}
    /\ etarget = 0
    /\ ps = "none"
    /\ elev_out = "none"
    /\ req = <<>>
    /\ pid_to_name = EmptyMap
    /\ info = [st |-> "none", v |-> <<>>]
    /\ RIdle

NextList == ListProcessesByName

SpecList == InitList /\ [][NextList]_vars

\* ---------------------------------------------- the elevation queries
\* etarget is the pid passed to is_process_elevated, or 0 when the call is
\* is_current_process_elevated. ps follows the PowerShell process:
\*   "started"       running, Get-Process not yet done (is_process_elevated)
\*   "got"           Get-Process found the target
\*   "identity"      about to evaluate WindowsIdentity::GetCurrent()
\*   "caught_get"    Get-Process threw (no such process): catch wrote "False"
\*   "caught_exit"   $process.Handle threw, the target exited after Get-Process
\*   "caught_denied" $process.Handle threw, access denied
\*   "out_True" / "out_False"  $isAdmin.ToString() was written
\*   "exitfail"      PowerShell ended with a non-zero exit status
\*   "spawnerr"      PowerShell could not be executed
CurrentProcess == 0

PsFinal == {"caught_get", "caught_exit", "caught_denied", "out_True", "out_False", "exitfail"}

\* PowerShell is launched; .output() fails through `?` when it cannot be
PowerShellSpawn ==
    /\ qpc = "elev"
    /\ ps = "none"
    /\ \/ /\ ps' = "spawnerr"
          /\ elev_out' = Err
          /\ qpc' = "done"
       \/ /\ ps' = IF etarget = CurrentProcess THEN "identity" ELSE "started"
          /\ UNCHANGED <<elev_out, qpc>>
    /\ UNCHANGED <<kvars, wmic, tasklist, pids_out, caller_admin, elevated, etarget,
                   req, pid_to_name, info>>
    /\ UNCHANGED rvars

\* $process = Get-Process -Id pid -ErrorAction Stop
PsGetProcess ==
    /\ qpc = "elev"
    /\ ps = "started"
    /\ ps' = IF etarget \in alive THEN "got" ELSE "caught_get"
    /\ UNCHANGED <<kvars, qpc, wmic, tasklist, pids_out, caller_admin, elevated, etarget,
                   elev_out, req, pid_to_name, info>>
    /\ UNCHANGED rvars

\* $processHandle = $process.Handle
PsHandle ==
    /\ qpc = "elev"
    /\ ps = "got"
    /\ IF etarget \in alive
       THEN ps' \in {"identity", "caught_denied"}
       ELSE ps' = "caught_exit"
    /\ UNCHANGED <<kvars, qpc, wmic, tasklist, pids_out, caller_admin, elevated, etarget,
                   elev_out, req, pid_to_name, info>>
    /\ UNCHANGED rvars

\* $identity = WindowsIdentity::GetCurrent(); ...IsInRole(Administrator);
\* Write-Output $isAdmin.ToString(): the identity of the PowerShell process,
\* which is the caller's
PsIdentity ==
    /\ qpc = "elev"
    /\ ps = "identity"
    /\ ps' = IF caller_admin THEN "out_True" ELSE "out_False"
    /\ UNCHANGED <<kvars, qpc, wmic, tasklist, pids_out, caller_admin, elevated, etarget,
                   elev_out, req, pid_to_name, info>>
    /\ UNCHANGED rvars

\* PowerShell ends with a non-zero exit status before the script is through
PsFails ==
    /\ qpc = "elev"
    /\ ps \in {"started", "got", "identity"}
    /\ ps' = "exitfail"
    /\ UNCHANGED <<kvars, qpc, wmic, tasklist, pids_out, caller_admin, elevated, etarget,
                   elev_out, req, pid_to_name, info>>
    /\ UNCHANGED rvars

\* stdout of a PowerShell run that ended in state p
PsStdout(p) == IF p = "out_True" THEN "True" ELSE IF p = "exitfail" THEN "" ELSE "False"

\* String::to_lowercase on the outputs above
ToLowercase(s) == IF s = "True" THEN "true" ELSE IF s = "False" THEN "false" ELSE s

\* variant: a non-zero exit status is an error
ElevatedResult_FailIsErr(p) ==
    IF p = "exitfail" THEN Err
    ELSE IF ToLowercase(PsStdout(p)) = "true" THEN OkTrue ELSE OkFalse

\* is_process_elevated from `if !output.status.success()` on
ElevatedResult(p) ==
    IF p = "exitfail" THEN OkFalse
    ELSE IF ToLowercase(PsStdout(p)) = "true" THEN OkTrue ELSE OkFalse

\* is_current_process_elevated from `if !output.status.success()` on
CurrentElevatedResult(p) ==
    IF p = "exitfail" THEN Err
    ELSE IF ToLowercase(PsStdout(p)) = "true" THEN OkTrue ELSE OkFalse

IsProcessElevatedReturn ==
    /\ qpc = "elev"
    /\ etarget # CurrentProcess
    /\ ps \in PsFinal
    /\ elev_out' = ElevatedResult(ps)
    /\ qpc' = "done"
    /\ UNCHANGED <<kvars, wmic, tasklist, pids_out, caller_admin, elevated, etarget, ps,
                   req, pid_to_name, info>>
    /\ UNCHANGED rvars

IsCurrentProcessElevatedReturn ==
    /\ qpc = "elev"
    /\ etarget = CurrentProcess
    /\ ps \in PsFinal
    /\ elev_out' = CurrentElevatedResult(ps)
    /\ qpc' = "done"
    /\ UNCHANGED <<kvars, wmic, tasklist, pids_out, caller_admin, elevated, etarget, ps,
                   req, pid_to_name, info>>
    /\ UNCHANGED rvars

InitElev ==
    /\ KQuiet
    /\ alive \in SUBSET Pids
    /\ qpc = "elev"
    /\ wmic = NoRun
    /\ tasklist = NoRun
    /\ pids_out = [st |-> "none", v |-> <<>>]
    /\ caller_admin \in BOOLEAN
    /\ elevated \in SUBSET Pids
    /\ etarget \in {CurrentProcess} \cup Pids
    /\ ps = "none"
    /\ elev_out = "none"
    /\ req = <<>>
    /\ pid_to_name = EmptyMap
    /\ info = [st |-> "none", v |-> <<>>]
    /\ RIdle

NextElev ==
    \/ PowerShellSpawn
    \/ PsGetProcess
    \/ PsHandle
    \/ PsIdentity
    \/ PsFails
    \/ IsProcessElevatedReturn
    \/ IsCurrentProcessElevatedReturn
    \/ (qpc = "elev" /\ ProcessExits)

SpecElev == InitElev /\ [][NextElev]_vars

\* every answer the steps of is_process_elevated can give is one that
\* ElevResults allows for some state of the target
ElevResultsCoverSteps ==
    (qpc = "done" /\ etarget # CurrentProcess) =>
        elev_out \in {Err, OkFalse} \cup (IF caller_admin THEN {OkTrue} ELSE {})

\* ------------------------------------------------------ get_process_info
\* the tasklist lines get_process_info reads here: two records, the
\* informational line, and the record of pid 2 whose image name is ,1
InfoTaskLines ==
    { TaskRecord(<<"a">>, 1), TaskRecord(<<"b">>, 2), InfoLine,
      TaskRecord(<<",", "1">>, 2) }

\* the wmic lines that follow the two header lines here
InfoWmicLines ==
    { WmicRecord(1, 2), WmicRecord(2, 1), WmicRecord(0, 3), <<"a", ",", "1">> }

InfoWmicRuns(n) ==
    {[status |-> "spawnerr", stdout |-> <<>>], [status |-> "fail", stdout |-> <<>>]}
        \cup {[status |-> "ok", stdout |-> <<BlankLine, WmicHeader>> \o l] :
                 l \in Listings(InfoWmicLines, n)}

\* the name column of one line: parts[0].trim_matches('"').trim()
NameField(line) == Trim(TrimQuotes(Split(line)[1]))

\* the loop that fills pid_to_name from the lines i, i+1, ... of the listing
RECURSIVE NamesFrom(_, _, _, _)
NamesFrom(listing, i, map, pid_set) ==
    IF i > Len(listing) THEN map
    ELSE NamesFrom(listing, i + 1,
                   IF PidField(listing[i]).ok /\ PidField(listing[i]).n \in pid_set
                   THEN MapInsert(map, PidField(listing[i]).n, NameField(listing[i]))
                   ELSE map,
                   pid_set)

\* format!("PID-{}", pid)
Placeholder(pid) == <<"P", "I", "D", "-">> \o ToDigits(pid)

None == [some |-> FALSE, v |-> 0]

Some(x) == [some |-> TRUE, v |-> x]

\* what is_process_elevated(pid) can return, by the steps of the elevation
\* query above: an error, false, and true for a live pid and an elevated caller
ElevResults(pid) ==
    {Err, OkFalse} \cup (IF caller_admin /\ pid \in alive THEN {OkTrue} ELSE {})

\* .unwrap_or(false)
UnwrapOrFalse(e) == e = OkTrue

\* the run of tasklist and the parse of the names
InfoTasklist ==
    /\ qpc = "info"
    /\ IF tasklist.status # "ok"
       THEN /\ info' = [st |-> Err, v |-> <<>>]
            /\ qpc' = "done"
            /\ UNCHANGED pid_to_name
       ELSE /\ pid_to_name' = NamesFrom(tasklist.stdout, 1, EmptyMap, Range(req))
            /\ qpc' = "info_parent"
            /\ UNCHANGED info
    /\ UNCHANGED <<kvars, wmic, tasklist, pids_out, caller_admin, elevated, etarget, ps,
                   elev_out, req>>
    /\ UNCHANGED rvars

\* let parent_map = get_process_parent_map().await.context(...)?
InfoParentMap ==
    /\ qpc = "info_parent"
    /\ snap' = IF ParentMapResult(wmic).st = "Ok" THEN "ok" ELSE "fail"
    /\ process_map' = ParentMapResult(wmic).v
    /\ IF ParentMapResult(wmic).st = "Ok"
       THEN qpc' = "info_loop" /\ UNCHANGED info
       ELSE qpc' = "done" /\ info' = [st |-> Err, v |-> <<>>]
    /\ UNCHANGED <<root, alive, callNo, prevResult, pc, to_process, visited,
                   all_children, iters, idx, kpc, ret, res, log, sawRoot, result>>
    /\ UNCHANGED <<wmic, tasklist, pids_out, caller_admin, elevated, etarget, ps,
                   elev_out, req, pid_to_name>>
    /\ UNCHANGED rvars

\* one turn of `for &pid in pids`, the call of is_process_elevated included
InfoPush ==
    /\ qpc = "info_loop"
    /\ Len(info.v) < Len(req)
    /\ LET pid == req[Len(info.v) + 1]
       IN  \E e \in ElevResults(pid) :
               /\ etarget' = pid
               /\ elev_out' = e
               /\ info' = [info EXCEPT !.v = Append(@,
                              [pid |-> pid,
                               name |-> IF pid \in DOMAIN pid_to_name
                                        THEN pid_to_name[pid]
                                        ELSE Placeholder(pid),
                               parent_pid |-> IF pid \in DOMAIN process_map
                                              THEN Some(process_map[pid])
                                              ELSE None,
                               is_elevated |-> UnwrapOrFalse(e)])]
    /\ UNCHANGED <<kvars, qpc, wmic, tasklist, pids_out, caller_admin, elevated, ps,
                   req, pid_to_name>>
    /\ UNCHANGED rvars

\* Ok(process_info)
InfoReturn ==
    /\ qpc = "info_loop"
    /\ Len(info.v) = Len(req)
    /\ info' = [info EXCEPT !.st = "Ok"]
    /\ qpc' = "done"
    /\ UNCHANGED <<kvars, wmic, tasklist, pids_out, caller_admin, elevated, etarget, ps,
                   elev_out, req, pid_to_name>>
    /\ UNCHANGED rvars

InitInfo ==
    /\ KQuiet
    /\ alive \in {{}, Pids}
    /\ qpc = "info"
    /\ wmic \in InfoWmicRuns(MaxInfoLines)
    /\ tasklist \in TasklistRuns(InfoTaskLines, MaxInfoLines)
    /\ pids_out = [st |-> "none", v |-> <<>>]
    /\ caller_admin \in BOOLEAN
    /\ elevated = {}
    /\ etarget = 0
    /\ ps = "none"
    /\ elev_out = "none"
    /\ req \in UNION {[1..k -> Pids] : k \in 0..MaxReq}
    /\ pid_to_name = EmptyMap
    /\ info = [st |-> "none", v |-> <<>>]
    /\ RIdle

NextInfo ==
    \/ InfoTasklist
    \/ InfoParentMap
    \/ InfoPush
    \/ InfoReturn

SpecInfo == InitInfo /\ [][NextInfo]_vars

\* --------------------------------------- the stubs of other platforms
\* On a platform other than Windows the module `process` is the three
\* functions of windows/mod.rs. root is the pid passed to kill_process_tree,
\* etarget the pid passed to is_process_elevated; the name passed to
\* list_processes_by_name is ignored like the pids.

\* variant: the stub runs a termination of the pid after all
NonWindows_kill_process_tree_Kills ==
    /\ qpc = "stub"
    /\ result = "none"
    /\ result' = IF root \in alive THEN OkTrue ELSE OkFalse
    /\ alive' = alive \ {root}
    /\ UNCHANGED <<root, callNo, prevResult, pc, snap, process_map, to_process,
                   visited, all_children, iters, idx, kpc, ret, res, log, sawRoot>>
    /\ UNCHANGED aux
    /\ UNCHANGED rvars

\* pub async fn kill_process_tree(_pid: u32) -> Result<bool> { Ok(false) }
NonWindows_kill_process_tree ==
    /\ qpc = "stub"
    /\ result = "none"
    /\ result' = OkFalse
    /\ UNCHANGED <<root, alive, callNo, prevResult, pc, snap, process_map, to_process,
                   visited, all_children, iters, idx, kpc, ret, res, log, sawRoot>>
    /\ UNCHANGED aux
    /\ UNCHANGED rvars

\* pub async fn list_processes_by_name(_name: &str) -> Result<Vec<u32>> { Ok(vec![]) }
NonWindows_list_processes_by_name ==
    /\ qpc = "stub"
    /\ pids_out.st = "none"
    /\ pids_out' = [st |-> "Ok", v |-> <<>>]
    /\ UNCHANGED <<kvars, qpc, wmic, tasklist, caller_admin, elevated, etarget, ps,
                   elev_out, req, pid_to_name, info>>
    /\ UNCHANGED rvars

\* pub async fn is_process_elevated(_pid: u32) -> Result<bool> { Ok(false) }
NonWindows_is_process_elevated ==
    /\ qpc = "stub"
    /\ elev_out = "none"
    /\ elev_out' = OkFalse
    /\ UNCHANGED <<kvars, qpc, wmic, tasklist, pids_out, caller_admin, elevated, etarget,
                   ps, req, pid_to_name, info>>
    /\ UNCHANGED rvars

InitStub ==
    /\ KQuiet
    /\ alive \in SUBSET Pids
    /\ qpc = "stub"
    /\ wmic = NoRun
    /\ tasklist = NoRun
    /\ pids_out = [st |-> "none", v |-> <<>>]
    /\ caller_admin \in BOOLEAN
    /\ elevated \in SUBSET Pids
    /\ etarget \in Pids
    /\ ps = "none"
    /\ elev_out = "none"
    /\ req = <<>>
    /\ pid_to_name = EmptyMap
    /\ info = [st |-> "none", v |-> <<>>]
    /\ RIdle

NextStub ==
    \/ NonWindows_kill_process_tree
    \/ NonWindows_list_processes_by_name
    \/ NonWindows_is_process_elevated

SpecStub == InitStub /\ [][NextStub]_vars

\* ---------------------------------------------------------- the registry
\* A key path is the hive followed by the components of the subkey path; a
\* component, a value name and a value are strings (sequences of characters;
\* a word in quotes stands for its characters). The unnamed value of a key
\* has the name <<>>. The hives themselves always exist.
HKCR == <<"HKEY_CLASSES_ROOT">>

HKCU == <<"HKEY_CURRENT_USER">>

\* r"SOFTWARE\Microsoft\Windows\CurrentVersion\Run" under HKEY_CURRENT_USER
RUN_KEY == <<HKCU, <<"SOFTWARE">>, <<"Microsoft">>, <<"Windows">>, <<"CurrentVersion">>, <<"Run">>>>

OkUnit == "Ok"

\* the arguments used here
ExePath == <<"e">>

ProgramId == <<"P">>

Description == <<"d">>

\* the extension with its dot
DotExt(extension) ==
    IF extension # <<>> /\ extension[1] = "." THEN extension ELSE <<".">> \o extension

\* format!(r#""{}" "%1""#, executable_path)
CommandLine(executable_path) ==
    <<"dq">> \o executable_path \o <<"dq", "sp", "dq", "%1", "dq">>

\* format!("{},0", executable_path)
IconValue(executable_path) == executable_path \o <<",", "0">>

CreateCall(path) == [kind |-> "create", path |-> path, name |-> <<>>, value |-> <<>>]

SetCall(path, name, value) == [kind |-> "set", path |-> path, name |-> name, value |-> value]

\* the registry API calls of register_file_association, in order
FileAssociationCalls(extension, program_id, executable_path, description) ==
    LET ext_key == <<HKCR, DotExt(extension)>>
        prog_key == <<HKCR, program_id>>
        shell_key == <<HKCR, program_id, <<"shell">>, <<"open">>, <<"command">>>>
        icon_key == <<HKCR, program_id, <<"DefaultIcon">>>>
    IN  << CreateCall(ext_key),
           SetCall(ext_key, <<>>, program_id),
           SetCall(ext_key, <<"Content Type">>, <<"application/x-opcode">>),
           CreateCall(prog_key),
           SetCall(prog_key, <<>>, description),
           CreateCall(shell_key),
           SetCall(shell_key, <<>>, CommandLine(executable_path)),
           CreateCall(icon_key),
           SetCall(icon_key, <<>>, IconValue(executable_path)) >>

\* the registry API calls of register_url_protocol, in order
UrlProtocolCalls(protocol, executable_path, description) ==
    LET protocol_key == <<HKCR, protocol>>
        command_key == <<HKCR, protocol, <<"shell">>, <<"open">>, <<"command">>>>
        icon_key == <<HKCR, protocol, <<"DefaultIcon">>>>
    IN  << CreateCall(protocol_key),
           SetCall(protocol_key, <<>>, description),
           SetCall(protocol_key, <<"URL Protocol">>, <<>>),
           CreateCall(command_key),
           SetCall(command_key, <<>>, CommandLine(executable_path)),
           CreateCall(icon_key),
           SetCall(icon_key, <<>>, IconValue(executable_path)) >>

\* the registry API calls of set_auto_start(app_name, executable_path, true)
AutoStartCalls(app_name, executable_path) ==
    << CreateCall(RUN_KEY), SetCall(RUN_KEY, app_name, executable_path) >>

\* the calls of the operation o
Calls(o) ==
    IF o.op = "file_association"
    THEN FileAssociationCalls(o.name, ProgramId, o.path, Description)
    ELSE IF o.op = "url_protocol"
    THEN UrlProtocolCalls(o.name, o.path, Description)
    ELSE AutoStartCalls(o.name, o.path)

\* the key paths RegCreateKeyExW brings into being for path: the key and the
\* keys above it
KeysOf(path) == {SubSeq(path, 1, n) : n \in 2..Len(path)}

\* RegCreateKeyExW succeeded: the key exists now, an existing key is opened
CreateKey(r, path) ==
    [k \in DOMAIN r \cup KeysOf(path) |-> IF k \in DOMAIN r THEN r[k] ELSE EmptyMap]

\* RegSetValueExW succeeded
SetValue(r, path, name, value) ==
    [k \in DOMAIN r |-> IF k = path THEN MapInsert(r[k], name, value) ELSE r[k]]

\* RegDeleteValueW succeeded
DeleteValue(r, path, name) ==
    [k \in DOMAIN r |->
        IF k = path THEN [n \in DOMAIN r[k] \ {name} |-> r[k][n]] ELSE r[k]]

\* register_file_association up to the first registry call: the extension is
\* given its dot, the executable must exist
register_file_association ==
    /\ rpc = "call"
    /\ rop.op = "file_association"
    /\ reg0' = reg
    /\ files0' = files
    /\ IF rop.path \notin DOMAIN files
       THEN rres' = Err /\ rpc' = "done"
       ELSE rres' = "none" /\ rpc' = "calls"
    /\ rstep' = 0
    /\ UNCHANGED <<kvars, aux, rop, reg, rprev, rcall, files>>

\* register_url_protocol up to the first registry call
register_url_protocol ==
    /\ rpc = "call"
    /\ rop.op = "url_protocol"
    /\ reg0' = reg
    /\ files0' = files
    /\ IF rop.path \notin DOMAIN files
       THEN rres' = Err /\ rpc' = "done"
       ELSE rres' = "none" /\ rpc' = "calls"
    /\ rstep' = 0
    /\ UNCHANGED <<kvars, aux, rop, reg, rprev, rcall, files>>

\* set_auto_start(app_name, executable_path, true) up to the first registry call
set_auto_start_enabled ==
    /\ rpc = "call"
    /\ rop.op = "auto_start"
    /\ rop.enabled
    /\ reg0' = reg
    /\ files0' = files
    /\ IF rop.path \notin DOMAIN files
       THEN rres' = Err /\ rpc' = "done"
       ELSE rres' = "none" /\ rpc' = "calls"
    /\ rstep' = 0
    /\ UNCHANGED <<kvars, aux, rop, reg, rprev, rcall, files>>

\* create_registry_key(...).context(...)?: the key is created or opened, or
\* the error ends the operation
create_registry_key ==
    /\ rpc = "calls"
    /\ rstep < Len(Calls(rop))
    /\ Calls(rop)[rstep + 1].kind = "create"
    /\ rstep' = rstep + 1
    /\ \/ /\ reg' = CreateKey(reg, Calls(rop)[rstep + 1].path)
          /\ UNCHANGED <<rpc, rres>>
       \/ /\ rres' = Err
          /\ rpc' = "done"
          /\ UNCHANGED reg
    /\ UNCHANGED <<kvars, aux, rop, reg0, rprev, rcall, files, files0>>

\* set_registry_value(...).context(...)?: the value is written, or the error
\* ends the operation
set_registry_value ==
    /\ rpc = "calls"
    /\ rstep < Len(Calls(rop))
    /\ Calls(rop)[rstep + 1].kind = "set"
    /\ rstep' = rstep + 1
    /\ \/ /\ reg' = SetValue(reg, Calls(rop)[rstep + 1].path,
                             Calls(rop)[rstep + 1].name, Calls(rop)[rstep + 1].value)
          /\ UNCHANGED <<rpc, rres>>
       \/ /\ rres' = Err
          /\ rpc' = "done"
          /\ UNCHANGED reg
    /\ UNCHANGED <<kvars, aux, rop, reg0, rprev, rcall, files, files0>>

\* every registry call succeeded: Ok(())
RegistryReturnOk ==
    /\ rpc = "calls"
    /\ rstep = Len(Calls(rop))
    /\ rres' = OkUnit
    /\ rpc' = "done"
    /\ UNCHANGED <<kvars, aux, rstep, rop, reg, reg0, rprev, rcall, files, files0>>

\* the registry after the else branch of set_auto_start: the Run key could
\* not be opened; or it was opened (created when missing) and the value was
\* deleted, or RegDeleteValueW failed (no such value, or any other error)
DisabledOutcomes(app_name) ==
    {reg, CreateKey(reg, RUN_KEY)}
        \cup (IF RUN_KEY \in DOMAIN reg /\ app_name \in DOMAIN reg[RUN_KEY]
              THEN {DeleteValue(reg, RUN_KEY, app_name)}
              ELSE {})

\* what the else branch returns and leaves: both failures are warnings only
DisabledResult(after, app_name) == [r |-> after, res |-> OkUnit]

\* set_auto_start(app_name, _, false)
set_auto_start_disabled ==
    /\ rpc = "call"
    /\ rop.op = "auto_start"
    /\ ~rop.enabled
    /\ reg0' = reg
    /\ files0' = files
    /\ \E after \in DisabledOutcomes(rop.name) :
          /\ reg' = DisabledResult(after, rop.name).r
          /\ rres' = DisabledResult(after, rop.name).res
    /\ rpc' = "done"
    /\ rstep' = 0
    /\ UNCHANGED <<kvars, aux, rop, rprev, rcall, files>>

\* the caller makes the same call once more
RegistryCallAgain ==
    /\ rpc = "done"
    /\ rop.op \in {"file_association", "url_protocol", "auto_start"}
    /\ rcall < MaxRegCalls
    /\ rcall' = rcall + 1
    /\ rprev' = rres
    /\ rres' = "none"
    /\ rpc' = "call"
    /\ rstep' = 0
    /\ UNCHANGED <<kvars, aux, rop, reg, reg0, files, files0>>

\* the operations and arguments called here
RegistryOps ==
    {[op |-> "file_association", name |-> n, enabled |-> FALSE, path |-> ExePath] :
        n \in {<<".", "o">>, <<"o">>}}
      \cup {[op |-> "url_protocol", name |-> <<"u">>, enabled |-> FALSE, path |-> ExePath]}
      \cup {[op |-> "auto_start", name |-> <<"A">>, enabled |-> b, path |-> ExePath] :
               b \in BOOLEAN}

\* the registries the calls start from: the Run key exists, without a value
\* A or with one; the extension key is missing, or exists and names another
\* program
InitialRegistries ==
    {[k \in {RUN_KEY} \cup hkcr |->
         IF k = RUN_KEY THEN run ELSE MapInsert(EmptyMap, <<>>, <<"Q">>)] :
        run \in {EmptyMap, MapInsert(EmptyMap, <<"A">>, ExePath),
                 MapInsert(EmptyMap, <<"A">>, <<"x">>)},
        hkcr \in {{}, {<<HKCR, <<".", "o">>>>}}}

InitReg ==
    /\ KIdle
    /\ AuxIdle
    /\ rpc = "call"
    /\ rstep = 0
    /\ rop \in RegistryOps
    /\ reg \in InitialRegistries
    /\ reg0 = reg
    /\ rres = "none"
    /\ rprev = "none"
    /\ rcall = 1
    /\ files \in {EmptyMap, MapInsert(EmptyMap, ExePath, <<"MZ">>)}
    /\ files0 = files

NextReg ==
    \/ register_file_association
    \/ register_url_protocol
    \/ set_auto_start_enabled
    \/ create_registry_key
    \/ set_registry_value
    \/ RegistryReturnOk
    \/ set_auto_start_disabled
    \/ RegistryCallAgain

SpecReg == InitReg /\ [][NextReg]_vars

\* ------------------------------------------------------------ properties
\* positions of the log at which a command was run on pid p
CmdsOn(p) == {i \in 1..Len(log) : log[i][2] = p}

Attempted(p) == CmdsOn(p) # {}

\* position of the first command run on p (p attempted)
FirstCmd(p) == CHOOSE i \in CmdsOn(p) : \A j \in CmdsOn(p) : i <= j

\* outcome of the last command run on p (p attempted)
LastOutcome(p) == log[CHOOSE i \in CmdsOn(p) : \A j \in CmdsOn(p) : j <= i][3]

\* the call on p has returned
Returned(p) == res[p] # "none"

Discovered == Range(all_children)

Descendants == Discovered \ {root}

\* the pids reachable from the set S by parent -> child hops of process_map
RECURSIVE ReachFrom(_)
ReachFrom(S) ==
    LET more == S \cup {p \in DOMAIN process_map : process_map[p] \in S}
    IN  IF more = S THEN S ELSE ReachFrom(more)

\* the snapshot does not mention p, neither as a pid nor as a parent
NotInMap(p) ==
    /\ p \notin DOMAIN process_map
    /\ \A q \in DOMAIN process_map : process_map[q] # p

\* C1: the first command on the root is run only after the call on every
\* non-root member of the discovered list has returned, whatever it returned;
\* every command on a descendant is earlier in the log than every command on
\* the root.
C1_RootAfterAllDescendants ==
    Attempted(root) =>
        /\ \A c \in Descendants : Attempted(c) /\ Returned(c)
        /\ \A c \in Descendants : \A i \in CmdsOn(c) : i < FirstCmd(root)

\* C1 witness: a tree of three, one descendant failed and one succeeded, and
\* the root has been attempted.
C1_Witness ==
    /\ pc = "done"
    /\ Cardinality(Discovered) = 3
    /\ Attempted(root)
    /\ \E c, d \in Descendants : res[c] = Err /\ res[d] = OkTrue

\* C2: bottom-up order. For p the parent of c in the snapshot, both discovered,
\* c not the root: p is attempted only after c has been attempted.
C2_ChildBeforeParent ==
    \A p \in Discovered : \A c \in Descendants :
        (c # p /\ c \in DOMAIN process_map /\ process_map[c] = p /\ Attempted(p))
            => (Attempted(c) /\ FirstCmd(c) < FirstCmd(p))

\* C3: the traversal never expands a pid twice (the list has no duplicates),
\* makes at most one iteration per record plus one for the root, and once it
\* is over the list contains the root.
C3_TraversalBounded ==
    /\ NoDup(all_children)
    /\ Len(all_children) = Cardinality(visited)
    /\ iters <= Cardinality(DOMAIN process_map) + 1
    /\ (pc = "traverse" /\ to_process # <<>>) => ENABLED TraverseStep
    /\ (pc = "children") => root \in Discovered

\* C3 witness: the traversal is over on a snapshot in which the root is on a
\* parent cycle of two or more pids, all of them discovered.
C3_Witness ==
    /\ pc = "children"
    /\ root \in DOMAIN process_map
    /\ process_map[root] # root
    /\ process_map[root] \in Discovered

\* C4: when the traversal is over the discovered pids are exactly the pids
\* reachable from the root; while it runs, only reachable pids are listed.
C4_ExactlyReachable ==
    /\ Discovered \subseteq ReachFrom({root})
    /\ (pc = "children") => Discovered = ReachFrom({root})

\* C4 witness: scenario A, root with children C1 and C2 and grandchild G
\* under C2; the four are returned.
C4_Witness ==
    /\ pc = "children"
    /\ \E c1, c2, g \in DOMAIN process_map :
          /\ Cardinality({root, c1, c2, g}) = 4
          /\ process_map[c1] = root
          /\ process_map[c2] = root
          /\ process_map[g] = c2
          /\ Discovered = {root, c1, c2, g}

\* C5: on a snapshot that does not mention the root, the list is the root
\* alone from the end of the traversal on, and the finished call has run a
\* termination command on the root.
C5_RootWithoutEntry ==
    (snap = "ok" /\ NotInMap(root)) =>
        /\ (pc \in {"children", "root", "done"}) => all_children = <<root>>
        /\ (pc = "done") => (Attempted(root) /\ log[FirstCmd(root)][1] = "graceful")

\* C5 witness: the call is over, the snapshot has records but none mentions
\* the root, which was already gone.
C5_Witness ==
    /\ pc = "done"
    /\ snap = "ok"
    /\ NotInMap(root)
    /\ DOMAIN process_map # {}
    /\ root \notin alive
    /\ result = OkFalse

\* C6: with a snapshot, the call finishes only after a termination attempt on
\* every discovered pid, and the root is reached only after an attempt on
\* every descendant, whatever the attempts on the descendants returned.
C6_FailureDoesNotStopBatch ==
    /\ (pc \in {"root", "done"} /\ snap = "ok") =>
          \A c \in Descendants : Attempted(c) /\ Returned(c)
    /\ (pc = "done" /\ snap = "ok") => (Attempted(root) /\ Returned(root))

\* C6 witness: the first descendant of the list failed (once because the tool
\* could not be run, once because the forced kill failed), and a later
\* descendant and the root were attempted all the same.
C6_Witness ==
    /\ pc = "done"
    /\ Len(all_children) = 3
    /\ res[all_children[2]] = Err
    /\ LastOutcome(all_children[2]) \in {"spawnerr", "other"}
    /\ Attempted(all_children[3])
    /\ Attempted(root)

C9_RootGoneIsOkFalse ==
    (/\ pc = "done"
     /\ Attempted(root)
     /\ log[FirstCmd(root)][3] = "fail"
     /\ LastOutcome(root) = "notfound") => result = OkFalse

\* C9 witness: the root neither exists nor appears in the snapshot, both
\* commands were run on it, and the call is over.
C9_Witness ==
    /\ pc = "done"
    /\ snap = "ok"
    /\ NotInMap(root)
    /\ ~sawRoot
    /\ Cardinality(CmdsOn(root)) = 2
    /\ LastOutcome(root) = "notfound"

KindOn(kind, p) == {i \in CmdsOn(p) : log[i][1] = kind}

\* C11: for every pid whose call has returned, the first command was the
\* graceful one, a forced command was run if and only if the graceful command
\* did not report success, and after a graceful success the call returned
\* Ok(true) without a forced command.
C11_ForcedIffGracefulNotSuccess ==
    \A p \in DOMAIN res :
        Returned(p) =>
            /\ Attempted(p)
            /\ log[FirstCmd(p)][1] = "graceful"
            /\ (KindOn("forced", p) # {}) <=> (log[FirstCmd(p)][3] # "success")
            /\ (log[FirstCmd(p)][3] = "success") => res[p] = OkTrue

C13_StateMachinePerPid ==
    \A p \in DOMAIN res :
        /\ Cardinality(KindOn("graceful", p)) <= 1
        /\ Cardinality(KindOn("forced", p)) <= 1
        /\ \A i \in KindOn("forced", p) : \E j \in KindOn("graceful", p) : j < i
        /\ (res[p] \in {Err, OkFalse}) => KindOn("forced", p) # {}

WellFormed(line) ==
    /\ Len(Split(line)) >= 3
    /\ ParseU32(Trim(Split(line)[2])).ok
    /\ ParseU32(Trim(Split(line)[3])).ok

RecParent(line) == ParseU32(Trim(Split(line)[2])).n

RecPid(line) == ParseU32(Trim(Split(line)[3])).n

\* what wmic prints when the enumeration worked starts with an empty line and
\* the header line
HasListingShape(listing) ==
    /\ Len(listing) >= 2
    /\ listing[1] = BlankLine
    /\ listing[2] = WmicHeader

\* C15: when wmic cannot be started, exits non-zero, or prints something that
\* is not a listing, get_process_parent_map returns an error.
C15_FailedEnumerationIsErr ==
    (qpc = "done" /\ (wmic.status # "ok" \/ ~HasListingShape(wmic.stdout))) => snap = "fail"

\* C16 (as claimed): malformed lines do not fail the snapshot and every
\* well-formed record of the listing is in the map.
C16_EveryWellFormedRecordKept ==
    (qpc = "done" /\ wmic.status = "ok") =>
        /\ snap = "ok"
        /\ \A i \in 1..Len(wmic.stdout) :
              WellFormed(wmic.stdout[i]) =>
                  /\ RecPid(wmic.stdout[i]) \in DOMAIN process_map
                  /\ process_map[RecPid(wmic.stdout[i])] = RecParent(wmic.stdout[i])

\* a record the parse keeps: after the two header lines, well-formed, pid and
\* parent pid positive
Kept(listing, i) ==
    /\ i >= 3
    /\ WellFormed(listing[i])
    /\ RecPid(listing[i]) > 0
    /\ RecParent(listing[i]) > 0

\* C16 (amended): malformed lines do not fail the snapshot; every well-formed
\* record after the two header lines with a positive pid and parent pid is in
\* the map, with the parent of the last such record of that pid; the map
\* holds nothing else.
C16_WellFormedPositiveRecordsKept ==
    (qpc = "done" /\ wmic.status = "ok") =>
        LET l == wmic.stdout
        IN  /\ snap = "ok"
            /\ \A i \in 1..Len(l) :
                  Kept(l, i) =>
                      /\ RecPid(l[i]) \in DOMAIN process_map
                      /\ \/ process_map[RecPid(l[i])] = RecParent(l[i])
                         \/ \E j \in (i + 1)..Len(l) : Kept(l, j) /\ RecPid(l[j]) = RecPid(l[i])
            /\ \A p \in DOMAIN process_map :
                  \E i \in 1..Len(l) :
                      Kept(l, i) /\ RecPid(l[i]) = p /\ RecParent(l[i]) = process_map[p]

\* C16 witness: after the header lines, a short line and a line with text for
\* the parent pid come before a record, and the record is in the map.
C16_Witness ==
    /\ qpc = "done"
    /\ snap = "ok"
    /\ Len(wmic.stdout) = 4
    /\ HasListingShape(wmic.stdout)
    /\ ~WellFormed(wmic.stdout[3])
    /\ wmic.stdout[3] # BlankLine
    /\ Kept(wmic.stdout, 4)
    /\ RecPid(wmic.stdout[4]) \in DOMAIN process_map

\* a line no field of which, stripped of quotes and blanks, is a number
NoPidLine(line) ==
    \A k \in 1..Len(Split(line)) : ~ParseU32(Trim(TrimQuotes(Trim(Split(line)[k])))).ok

\* C17: when tasklist ran and no line of its listing carries a parsable pid
\* (no process matched: nothing, blank lines, the informational line),
\* list_processes_by_name returns Ok with an empty list; in general the list
\* holds at most one pid per line that carries one.
C17_NoMatchIsEmptyList ==
    (qpc = "done" /\ tasklist.status = "ok") =>
        /\ pids_out.st = "Ok"
        /\ Len(pids_out.v) <=
               Cardinality({i \in 1..Len(tasklist.stdout) : ~NoPidLine(tasklist.stdout[i])})
        /\ (\A i \in 1..Len(tasklist.stdout) : NoPidLine(tasklist.stdout[i]))
               => pids_out.v = <<>>

\* C17 witness: the listing is the informational line and a blank line, and
\* the call has returned.
C17_Witness ==
    /\ qpc = "done"
    /\ tasklist.status = "ok"
    /\ tasklist.stdout = <<InfoLine, BlankLine>>
    /\ pids_out = [st |-> "Ok", v |-> <<>>]

\* the query met an error: PowerShell could not be executed, it ended with a
\* non-zero status, or the script's catch block ran
QueryError == ps \in {"spawnerr", "exitfail", "caught_get", "caught_exit", "caught_denied"}

\* C18 (as claimed): an elevation query that met an error returns false, and
\* no elevation query returns an error.
C18_ErrorIsFalse ==
    qpc = "done" =>
        /\ elev_out # Err
        /\ QueryError => elev_out = OkFalse

\* C18 (amended): is_process_elevated returns Ok(false) when the target is
\* not found, exits mid-query, its handle is denied, or PowerShell ends with
\* a non-zero status, and returns an error exactly when PowerShell cannot be
\* executed; is_current_process_elevated returns an error exactly when
\* PowerShell cannot be executed or ends with a non-zero status.
C18_FalseOnScriptErrorErrOnTool ==
    qpc = "done" =>
        IF etarget # CurrentProcess
        THEN /\ elev_out = Err <=> ps = "spawnerr"
             /\ ps \in {"exitfail", "caught_get", "caught_exit", "caught_denied"}
                    => elev_out = OkFalse
        ELSE elev_out = Err <=> ps \in {"spawnerr", "exitfail"}

\* C18 witness: the target was found by Get-Process, exited before its handle
\* was taken, and the call has returned Ok(false) with an elevated caller.
C18_Witness ==
    /\ qpc = "done"
    /\ etarget # CurrentProcess
    /\ ps = "caught_exit"
    /\ caller_admin
    /\ elev_out = OkFalse

\* C19: is_process_elevated(pid) that completed its query on a pid that is
\* live throughout returns true exactly when that process is elevated.
C19_AnswerIsTargetsElevation ==
    (qpc = "done" /\ etarget \in alive /\ ps \in {"out_True", "out_False"}) =>
        (elev_out = OkTrue <=> etarget \in elevated)

\* C20: when tasklist and wmic both ran, get_process_info returns Ok with one
\* record per requested pid, in request order, with that pid and a non-empty
\* name; a pid without a name in the listing has the placeholder name, a pid
\* without an entry in the parent map has parent None, and a failed elevation
\* query gives is_elevated false.
C20_OneNamedRecordPerPid ==
    (qpc = "done" /\ tasklist.status = "ok" /\ wmic.status = "ok") =>
        /\ info.st = "Ok"
        /\ Len(info.v) = Len(req)
        /\ \A i \in 1..Len(req) :
              /\ info.v[i].pid = req[i]
              /\ info.v[i].name # <<>>
              /\ req[i] \notin DOMAIN pid_to_name => info.v[i].name = Placeholder(req[i])
              /\ req[i] \notin DOMAIN process_map => info.v[i].parent_pid = None
              /\ (i = Len(req) /\ elev_out = Err) => ~info.v[i].is_elevated


\* the pids of the processes a wmic listing reports (the ProcessId column of
\* its records)
SnapshotPids(listing) ==
    {RecPid(listing[j]) : j \in {k \in 3..Len(listing) : WellFormed(listing[k])}}

\* C21: in every record get_process_info returns, parent_pid is Some(p) only
\* for a p that is a process of the snapshot, and it is None exactly when the
\* snapshot has no record of the pid whose parent is a process of the snapshot.
C21_ParentIsInSnapshot ==
    (qpc = "done" /\ info.st = "Ok") =>
        \A i \in 1..Len(info.v) :
            LET r == info.v[i]
                l == wmic.stdout
            IN  /\ r.parent_pid.some => r.parent_pid.v \in SnapshotPids(l)
                /\ r.parent_pid = None <=>
                       ~\E j \in 3..Len(l) :
                            /\ WellFormed(l[j])
                            /\ RecPid(l[j]) = r.pid
                            /\ RecParent(l[j]) \in SnapshotPids(l)

\* C22: every termination command of a call is run on a pid of the set
\* reachable from the root in the call's own snapshot, and a command takes no
\* process out of the process table but its own target.
C22_CommandsOnlyOnDescendantSet ==
    /\ [](\A i \in 1..Len(log) : snap = "ok" /\ log[i][2] \in ReachFrom({root}))
    /\ [][Len(log') = Len(log) + 1 =>
              /\ log'[Len(log')][2] \in ReachFrom({root})
              /\ alive' \subseteq alive
              /\ alive \ alive' \subseteq {log'[Len(log')][2]}]_vars

\* C22 witness: the call has finished, it terminated a descendant and the
\* root, and a live process that the snapshot does not mention received no
\* command and is still there.
C22_Witness ==
    /\ pc = "done"
    /\ snap = "ok"
    /\ LastOutcome(root) = "success"
    /\ \E d \in Descendants : Attempted(d) /\ LastOutcome(d) = "success"
    /\ \E p \in alive : NotInMap(p) /\ p # root /\ ~Attempted(p)

\* the members of S in ascending order
RECURSIVE Ascending(_)
Ascending(S) ==
    IF S = {} THEN <<>>
    ELSE LET m == CHOOSE x \in S : \A y \in S : x <= y
         IN  <<m>> \o Ascending(S \ {m})

\* the run of the traversal that iterates the map in ascending pid order:
\* the list it returns from the work-list stack, the visited set seen and the
\* list out built so far
RECURSIVE ReferenceRun(_, _, _)
ReferenceRun(stack, seen, out) ==
    IF stack = <<>> THEN out
    ELSE LET current_pid == stack[Len(stack)]
             rest == SubSeq(stack, 1, Len(stack) - 1)
         IN  IF current_pid \in seen
             THEN ReferenceRun(rest, seen, out)
             ELSE ReferenceRun(
                      rest \o Ascending({pid \in DOMAIN process_map :
                                            process_map[pid] = current_pid
                                                /\ pid \notin seen \cup {current_pid}}),
                      seen \cup {current_pid},
                      Append(out, current_pid))

\* C23: whatever order the map was iterated in, the finished traversal
\* returns the set of pids, and the number of pids, that the run in ascending
\* order returns for the same map and root.
C23_SameSetInEveryRun ==
    (pc = "children") =>
        /\ Range(all_children) = Range(ReferenceRun(<<root>>, {}, <<>>))
        /\ Len(all_children) = Len(ReferenceRun(<<root>>, {}, <<>>))

\* C23 witness: a finished traversal of four pids whose list is in another
\* order than the list of the run in ascending order.
C23_Witness ==
    /\ pc = "children"
    /\ Len(all_children) = 4
    /\ all_children # ReferenceRun(<<root>>, {}, <<>>)

C25_FailureLeavesRegistryAsBefore ==
    (rpc = "done" /\ rop.op \in {"file_association", "url_protocol"} /\ rres = Err)
        => reg = reg0

\* C26: when set_auto_start has returned Ok, the Run key holds no value named
\* app_name after a call with enabled false and holds app_name ->
\* executable_path after a call with enabled true, and a call that repeats a
\* call that returned Ok leaves the registry as that call left it.
C26_OkMeansDone ==
    (rpc = "done" /\ rop.op = "auto_start" /\ rres = OkUnit) =>
        /\ ~rop.enabled => ~(RUN_KEY \in DOMAIN reg /\ rop.name \in DOMAIN reg[RUN_KEY])
        /\ rop.enabled =>
              /\ RUN_KEY \in DOMAIN reg
              /\ rop.name \in DOMAIN reg[RUN_KEY]
              /\ reg[RUN_KEY][rop.name] = rop.path
        /\ (rcall >= 2 /\ rprev = OkUnit) => reg = reg0

\* C27: a call whose snapshot failed has returned Err, and it ran no command
\* and called kill_single_process for no pid, the root included.
C27_NoSnapshotNoCommand ==
    (snap = "fail") =>
        /\ pc = "done"
        /\ result = Err
        /\ log = <<>>
        /\ all_children = <<>>
        /\ \A p \in DOMAIN res : res[p] = "none"

\* C27 witness: the snapshot of a second call failed while the root and
\* another process exist, and the call has returned.
C27_Witness ==
    /\ callNo = 2
    /\ snap = "fail"
    /\ pc = "done"
    /\ root \in alive
    /\ alive # {root}

\* C28: in one call every pid receives at most one graceful and at most one
\* forced command, whatever the commands reported, the commands are taskkill
\* commands only, and no command is run on the root while the loop over the
\* descendants is under way.
C28_NoRetry ==
    /\ \A p \in Pids :
          /\ Cardinality(KindOn("graceful", p)) <= 1
          /\ Cardinality(KindOn("forced", p)) <= 1
    /\ \A i \in 1..Len(log) : log[i][1] \in {"graceful", "forced"}
    /\ (pc = "children") => ~Attempted(root)
    /\ Len(log) <= 2 * MaxPid

\* C28 witness: the call has finished; the forced command on a descendant and
\* the forced command on the root both failed without the not-found signature
\* (access denied), and each was run once.
C28_Witness ==
    /\ pc = "done"
    /\ snap = "ok"
    /\ Attempted(root)
    /\ LastOutcome(root) = "other"
    /\ \E d \in Descendants :
          /\ Attempted(d)
          /\ LastOutcome(d) = "other"
          /\ Cardinality(KindOn("forced", d)) = 1
          /\ Cardinality(KindOn("graceful", d)) = 1

\* C29: every call returns in the end; at every moment the commands run are
\* at most two per discovered pid, and a call that had its snapshot has, when
\* it returns, made a termination attempt that returned on every discovered
\* pid.
C29_BatchRunsToCompletion ==
    /\ <>(pc = "done")
    /\ [](Len(log) <= 2 * Cardinality(Discovered))
    /\ []((pc = "done" /\ snap = "ok") =>
             \A p \in Discovered : Attempted(p) /\ Returned(p))

\* C29 witness: a call on a tree of three pids has returned after six
\* commands, two on each pid.
C29_Witness ==
    /\ pc = "done"
    /\ Cardinality(Discovered) = 3
    /\ Len(log) = 6

\* ------------------------------------------------------------ permissions.rs
\* requires_admin_access(path). A path is the sequence of its components and
\* a component the sequence of its characters; the file system maps the
\* paths of FsPaths to what is there.

\* the path as the string the function is given, components joined by '\'
RECURSIVE PathString(_)
PathString(p) ==
    IF p = <<>> THEN <<>>
    ELSE IF Len(p) = 1 THEN Head(p)
    ELSE Head(p) \o <<"\\">> \o PathString(Tail(p))

\* str::to_lowercase on the letters that occur here
LowerChar(c) ==
    CASE c = "C" -> "c"
      [] c = "D" -> "d"
      [] c = "W" -> "w"
      [] c = "P" -> "p"
      [] OTHER -> c

StartsWith(s, prefix) ==
    /\ Len(prefix) <= Len(s)
    /\ SubSeq(s, 1, Len(prefix)) = prefix

admin_paths ==
    { <<"c", ":", "\\", "w", "i", "n", "d", "o", "w", "s">>,
      <<"c", ":", "\\", "p", "r", "o", "g", "r", "a", "m", " ", "f", "i", "l", "e", "s">>,
      <<"c", ":", "\\", "p", "r", "o", "g", "r", "a", "m", " ", "f", "i", "l", "e", "s",
        " ", "(", "x", "8", "6", ")">>,
      <<"c", ":", "\\", "p", "r", "o", "g", "r", "a", "m", "d", "a", "t", "a">> }

InAdminPath(p) ==
    LET path_lower == [i \in 1..Len(PathString(p)) |-> LowerChar(PathString(p)[i])]
    IN  \E a \in admin_paths : StartsWith(path_lower, a)

opcode_test == <<"o", "p", "c", "o", "d", "e", "_", "t", "e", "s", "t">>

\* Path::file_stem: the name up to its last '.', the whole name when the only
\* '.' is its first character or there is none
FileStem(n) ==
    LET dots == {i \in 2..Len(n) : n[i] = "."}
    IN  IF dots = {} THEN n
        ELSE SubSeq(n, 1, (CHOOSE i \in dots : \A j \in dots : j <= i) - 1)

\* Path::with_extension("opcode_test"); a path with no file name is unchanged
WithExtension(p) ==
    IF Len(p) <= 1 THEN p
    ELSE [p EXCEPT ![Len(p)] = FileStem(@) \o <<".">> \o opcode_test]

\* Path::join(".opcode_test")
JoinProbe(p) == Append(p, <<".">> \o opcode_test)

DriveD == <<"d", ":">>
NameWork == <<"w", "o", "r", "k">>
NameATxt == <<"a", ".", "t", "x", "t">>

\* the places of the file system that the calls made here can reach
FsPaths ==
    { <<DriveD, NameWork>>,
      JoinProbe(<<DriveD, NameWork>>),
      WithExtension(<<DriveD, NameWork>>),
      <<DriveD, NameATxt>>,
      WithExtension(<<DriveD, NameATxt>>) }

NoEntry == [kind |-> "none", data |-> "", deny |-> FALSE]
FileEntry(data, deny) == [kind |-> "file", data |-> data, deny |-> deny]
DirEntry(deny) == [kind |-> "dir", data |-> "", deny |-> deny]

\* Path::is_dir; the root of drive d: is a directory open to the caller
IsDir(fs, p) ==
    \/ p = <<DriveD>>
    \/ p \in DOMAIN fs /\ fs[p].kind = "dir"

test_path(fs, p) == IF IsDir(fs, p) THEN JoinProbe(p) ELSE WithExtension(p)

\* std::fs::write(&test_path, b"test"): the outcomes and the file system each
\* leaves. The file is created when absent and truncated when present.
FsWrite(fs, t) ==
    LET parent == SubSeq(t, 1, Len(t) - 1)
    IN
    IF t \notin DOMAIN fs \/ ~IsDir(fs, parent)
      THEN {[r |-> "NotFound", fs |-> fs]}
    ELSE IF fs[t].kind = "dir"
      THEN {[r |-> "PermissionDenied", fs |-> fs]}
    ELSE IF fs[t].kind = "file"
      THEN IF fs[t].deny THEN {[r |-> "PermissionDenied", fs |-> fs]}
           ELSE {[r |-> "Ok", fs |-> [fs EXCEPT ![t] = FileEntry("test", FALSE)]]}
    ELSE IF parent \in DOMAIN fs /\ fs[parent].deny
      THEN {[r |-> "PermissionDenied", fs |-> fs]}
    ELSE {[r |-> "Ok", fs |-> [fs EXCEPT ![t] = FileEntry("test", FALSE)]]}

\* std::fs::remove_file(&test_path), its result dropped by `let _ =`
FsRemoveFile(fs, t) == {[fs EXCEPT ![t] = NoEntry], fs}

\* the whole of requires_admin_access: the result and the file system left
RequiresAdminAccess(fs, p) ==
    IF InAdminPath(p) THEN {[res |-> OkTrue, fs |-> fs]}
    ELSE LET t == test_path(fs, p)
         IN  UNION {
               IF w.r = "Ok"
                 THEN {[res |-> OkFalse, fs |-> g] : g \in FsRemoveFile(w.fs, t)}
               ELSE IF w.r = "PermissionDenied"
                 THEN {[res |-> OkTrue, fs |-> w.fs]}
               ELSE {[res |-> OkFalse, fs |-> w.fs]} : w \in FsWrite(fs, t) }

requires_admin_access ==
    /\ rpc = "call"
    /\ rop.op = "requires_admin_access"
    /\ \E o \in RequiresAdminAccess(files, rop.path) :
          /\ rres' = o.res
          /\ files' = o.fs
    /\ files0' = files
    /\ rpc' = "done"
    /\ UNCHANGED <<kvars, aux, rstep, rop, reg, reg0, rprev, rcall>>

\* the paths asked about
PermPaths ==
    { <<>>,
      <<<<"C", ":">>, <<"W", "i", "n", "d", "o", "w", "s">>>>,
      <<DriveD, NameWork>>,
      <<DriveD, <<"a">>>>,
      <<DriveD, NameATxt>>,
      WithExtension(<<DriveD, NameATxt>>) }

PermOp(p) == [op |-> "requires_admin_access", name |-> <<>>, enabled |-> FALSE, path |-> p]

\* the caller asks about another path
PermCallAgain ==
    /\ rpc = "done"
    /\ rop.op = "requires_admin_access"
    /\ rcall < MaxRegCalls
    /\ rcall' = rcall + 1
    /\ rprev' = rres
    /\ rres' = "none"
    /\ rpc' = "call"
    /\ \E p \in PermPaths : rop' = PermOp(p)
    /\ UNCHANGED <<kvars, aux, rstep, reg, reg0, files, files0>>

\* the file systems a call can find: files of the user, some read-only,
\* directories, some closed to the caller; d:\work has entries only when it
\* is a directory
InitialFileSystems ==
    { fs \in [FsPaths -> { NoEntry, FileEntry("user", FALSE), FileEntry("user", TRUE),
                           DirEntry(FALSE), DirEntry(TRUE) }] :
        /\ fs[JoinProbe(<<DriveD, NameWork>>)].kind # "none"
              => fs[<<DriveD, NameWork>>].kind = "dir"
        /\ fs[WithExtension(<<DriveD, NameWork>>)] \in {NoEntry, FileEntry("user", FALSE)}
        /\ fs[<<DriveD, NameATxt>>] \in {NoEntry, FileEntry("user", FALSE)}
        /\ fs[JoinProbe(<<DriveD, NameWork>>)].kind = "dir"
              => ~fs[JoinProbe(<<DriveD, NameWork>>)].deny
        /\ fs[WithExtension(<<DriveD, NameATxt>>)].kind = "dir"
              => ~fs[WithExtension(<<DriveD, NameATxt>>)].deny }

InitPerm ==
    /\ KIdle
    /\ AuxIdle
    /\ rpc = "call"
    /\ rstep = 0
    /\ rop \in {PermOp(p) : p \in PermPaths}
    /\ reg = <<>>
    /\ reg0 = <<>>
    /\ rres = "none"
    /\ rprev = "none"
    /\ rcall = 1
    /\ files \in InitialFileSystems
    /\ files0 = files

NextPerm ==
    \/ requires_admin_access
    \/ PermCallAgain

SpecPerm == InitPerm /\ [][NextPerm]_vars

\* C30: after requires_admin_access returns, the file system is as it was
\* before the call: no file created, overwritten or deleted.
C30_FileSystemUntouched == rpc = "done" /\ rop.op = "requires_admin_access" => files = files0
====
